---- MODULE Spec2Model ----
(***************************************************************************)
(* Desk-environment controller: rule evaluation (src/src/core/rules.py),   *)
(* the per-tick state transition and energy integration                    *)
(* (src/src/core/controller.py) on a DeskState (src/src/core/state.py),    *)
(* the explanation client with its rule-based fallback                     *)
(* (src/src/ai/llm_client.py), the console actuator                        *)
(* (src/src/hw/actuators.py) and the control loop (src/run_simulation.py). *)
(*                                                                         *)
(* Units.  Python floats are modelled by exact integers:                   *)
(*   light_lux, temperature_c, humidity_pct    whole units                 *)
(*   posture_score, bad_threshold              hundredths (0.7 is 70)      *)
(*   dt_seconds                                seconds, multiples of 1800  *)
(*   energy_used_wh                            watt-hours; the wattages    *)
(*                                             are multiples of 10, so     *)
(*                                             w * dt / 3600 is a whole    *)
(*                                             number for every dt used    *)
(***************************************************************************)
EXTENDS Integers, Sequences, FiniteSets, TLC

VARIABLES
    state,        \* the DeskState threaded through Controller.step
    sensor,       \* reading passed to the latest Controller.step
    dt_seconds,   \* dt_seconds passed to the latest Controller.step
    now,          \* `now` passed to the latest Controller.step
    actions,      \* action list returned by the latest Controller.step
    absent_run,   \* trailing consecutive ticks with present = FALSE (capped)
    repeated,     \* latest tick's reading equals the one of the tick before
    llm_config,   \* LLMClient.config
    llm_call,     \* inputs and backend behaviour of the latest explain_decision
    llm_result,   \* what the latest explain_decision did
    trail,        \* scenario runs: the readings of all ticks since the fresh DeskState
    rule_in,      \* arguments of the latest direct call of a rule function
    rule_out,     \* what that call returned
    act_calls,    \* control loop: actuator calls made in the latest tick, in order
    log_row,      \* control loop: record handed to log_step in the latest tick
    crashed,      \* control loop: an exception has left the loop
    actuator,     \* the fields of the ConsoleActuator
    printed,      \* lines the actuator printed in the latest tick or direct call
    call_log,     \* direct actuator calls of the run, each with its effect
    desks,        \* two desks stepped through one Controller
    probe         \* two direct calls of Controller.step side by side

vars == <<state, sensor, dt_seconds, now, actions, absent_run, repeated,
          llm_config, llm_call, llm_result, trail, rule_in, rule_out,
          act_calls, log_row, crashed, actuator, printed, call_log, desks, probe>>

ctlVars == <<state, sensor, dt_seconds, now, actions, absent_run, repeated>>
llmVars == <<llm_config, llm_call, llm_result>>
ruleVars == <<rule_in, rule_out>>
loopVars == <<act_calls, log_row, crashed, actuator, printed>>
sideVars == <<call_log, desks, probe>>

\* Optional[datetime]: None is 0, the datetimes are 1, 2, ...
None == 0

-----------------------------------------------------------------------------
(* Bounds of the model *)

\* |energy_used_wh| is kept within this many watt-hours
MaxEnergyWh == 40
\* absent_run stops counting here
AbsentCap == 2
\* number of distinct `now` values
MaxTime == 2
\* number of ticks of a scenario run
MaxTrail == 3
\* number of direct actuator calls of a run
MaxCalls == 4
\* number of ticks of each desk of the two-desk runs
MaxDeskTicks == 3

-----------------------------------------------------------------------------
(* Configuration: Controller.__init__ and the defaults read in step *)

energy_light_w == 10
energy_fan_w == 30
on_lux == 200
off_lux == 400
on_c == 27
off_c == 24
humid_on_pct == 65
bad_threshold == 70

-----------------------------------------------------------------------------
(* Inputs *)

LuxValues == {150, 300, 450}
TempValues == {23, 25, 28}
HumidValues == {60, 70}
PostureValues == {60, 80}

Readings ==
    [present : BOOLEAN, light_lux : LuxValues, temperature_c : TempValues,
     humidity_pct : HumidValues, posture_score : PostureValues]

\* Spec holds the elapsed time at 0 and varies the whole reading and `now`;
\* EnergySpec varies the elapsed time over readings that drive light and fan.
DtValues == {-3600, 0, 1800, 3600}
Times == 1..MaxTime

EnergyReadings ==
    {s \in Readings : s.humidity_pct = 60 /\ s.posture_score = 80}

\* The reading Controller.step sees when every field is missing
\* (the defaults of sensor.get); also the "no tick yet" value of sensor.
NoReading ==
    [present |-> FALSE, light_lux |-> 0, temperature_c |-> 0,
     humidity_pct |-> 0, posture_score |-> 100]

-----------------------------------------------------------------------------
(* src/src/core/state.py *)

DeskState ==
    [light_on |-> FALSE, fan_on |-> FALSE, posture_alert_on |-> FALSE,
     last_action_ts |-> None, energy_used_wh |-> 0]

-----------------------------------------------------------------------------
(* src/src/core/rules.py *)

\* decide_light_action with one threshold only: no dead zone
decide_light_action_nodead(light_lux, present, on_threshold, off_threshold) ==
    IF ~present THEN "turn_off_light"
    ELSE IF light_lux < off_threshold THEN "turn_on_light"
    ELSE IF light_lux > off_threshold THEN "turn_off_light"
    ELSE "no_change"

\* decide_light_action that tests both rules against on_threshold
decide_light_action_onethreshold(light_lux, present, on_threshold, off_threshold) ==
    IF ~present THEN "turn_off_light"
    ELSE IF light_lux < on_threshold THEN "turn_on_light"
    ELSE IF light_lux > on_threshold THEN "turn_off_light"
    ELSE "no_change"

\* decide_light_action whose OFF rule includes the threshold itself
decide_light_action_offinclusive(light_lux, present, on_threshold, off_threshold) ==
    IF ~present THEN "turn_off_light"
    ELSE IF light_lux < on_threshold THEN "turn_on_light"
    ELSE IF light_lux >= off_threshold THEN "turn_off_light"
    ELSE "no_change"

decide_light_action(light_lux, present, on_threshold, off_threshold) ==
    IF ~present THEN "turn_off_light"
    ELSE IF light_lux < on_threshold THEN "turn_on_light"
    ELSE IF light_lux > off_threshold THEN "turn_off_light"
    ELSE "no_change"

\* decide_fan_action with the presence test after the ON rule
decide_fan_action_onfirst(temperature_c, humidity_pct, present, temp_on, temp_off, humid_on) ==
    IF temperature_c > temp_on \/ humidity_pct > humid_on THEN "turn_on_fan"
    ELSE IF ~present THEN "turn_off_fan"
    ELSE IF temperature_c < temp_off THEN "turn_off_fan"
    ELSE "no_change"

\* decide_fan_action with inclusive comparisons
decide_fan_action_inclusive(temperature_c, humidity_pct, present, temp_on, temp_off, humid_on) ==
    IF ~present THEN "turn_off_fan"
    ELSE IF temperature_c >= temp_on \/ humidity_pct >= humid_on THEN "turn_on_fan"
    ELSE IF temperature_c <= temp_off THEN "turn_off_fan"
    ELSE "no_change"

decide_fan_action(temperature_c, humidity_pct, present, temp_on, temp_off, humid_on) ==
    IF ~present THEN "turn_off_fan"
    ELSE IF temperature_c > temp_on \/ humidity_pct > humid_on THEN "turn_on_fan"
    ELSE IF temperature_c < temp_off THEN "turn_off_fan"
    ELSE "no_change"

\* decide_posture_alert that alerts at the threshold as well
decide_posture_alert_inclusive(posture_score, present, bad_posture_threshold) ==
    IF ~present THEN "clear_posture_alert"
    ELSE IF posture_score <= bad_posture_threshold THEN "posture_alert_on"
    ELSE "clear_posture_alert"

decide_posture_alert(posture_score, present, bad_posture_threshold) ==
    IF ~present THEN "clear_posture_alert"
    ELSE IF posture_score < bad_posture_threshold THEN "posture_alert_on"
    ELSE "clear_posture_alert"

-----------------------------------------------------------------------------
(* src/src/core/controller.py: Controller.step, one block per channel.     *)
(* Each block takes and returns the pair (state, actions) it mutates.      *)

\* LightBlock that emits turn_off_light without looking at state.light_on
LightBlock_alwaysoff(s, sa) ==
    LET la == decide_light_action(s.light_lux, s.present, on_lux, off_lux) IN
    IF la = "turn_on_light" /\ ~sa.state.light_on
    THEN [state |-> [sa.state EXCEPT !.light_on = TRUE],
          actions |-> Append(sa.actions, la)]
    ELSE IF la = "turn_off_light"
    THEN [state |-> [sa.state EXCEPT !.light_on = FALSE],
          actions |-> Append(sa.actions, la)]
    ELSE sa

LightBlock(s, sa) ==
    LET la == decide_light_action(s.light_lux, s.present, on_lux, off_lux) IN
    IF la = "turn_on_light" /\ ~sa.state.light_on
    THEN [state |-> [sa.state EXCEPT !.light_on = TRUE],
          actions |-> Append(sa.actions, la)]
    ELSE IF la = "turn_off_light" /\ sa.state.light_on
    THEN [state |-> [sa.state EXCEPT !.light_on = FALSE],
          actions |-> Append(sa.actions, la)]
    ELSE sa

\* FanBlock that emits turn_on_fan without looking at state.fan_on
FanBlock_alwayson(s, sa) ==
    LET fa == decide_fan_action(s.temperature_c, s.humidity_pct, s.present,
                                on_c, off_c, humid_on_pct) IN
    IF fa = "turn_on_fan"
    THEN [state |-> [sa.state EXCEPT !.fan_on = TRUE],
          actions |-> Append(sa.actions, fa)]
    ELSE IF fa = "turn_off_fan" /\ sa.state.fan_on
    THEN [state |-> [sa.state EXCEPT !.fan_on = FALSE],
          actions |-> Append(sa.actions, fa)]
    ELSE sa

FanBlock(s, sa) ==
    LET fa == decide_fan_action(s.temperature_c, s.humidity_pct, s.present,
                                on_c, off_c, humid_on_pct) IN
    IF fa = "turn_on_fan" /\ ~sa.state.fan_on
    THEN [state |-> [sa.state EXCEPT !.fan_on = TRUE],
          actions |-> Append(sa.actions, fa)]
    ELSE IF fa = "turn_off_fan" /\ sa.state.fan_on
    THEN [state |-> [sa.state EXCEPT !.fan_on = FALSE],
          actions |-> Append(sa.actions, fa)]
    ELSE sa

\* PostureBlock that emits posture_alert_on without looking at the flag
PostureBlock_alwayson(s, sa) ==
    LET pa == decide_posture_alert(s.posture_score, s.present, bad_threshold) IN
    IF pa = "posture_alert_on"
    THEN [state |-> [sa.state EXCEPT !.posture_alert_on = TRUE],
          actions |-> Append(sa.actions, pa)]
    ELSE IF pa = "clear_posture_alert" /\ sa.state.posture_alert_on
    THEN [state |-> [sa.state EXCEPT !.posture_alert_on = FALSE],
          actions |-> Append(sa.actions, pa)]
    ELSE sa

PostureBlock(s, sa) ==
    LET pa == decide_posture_alert(s.posture_score, s.present, bad_threshold) IN
    IF pa = "posture_alert_on" /\ ~sa.state.posture_alert_on
    THEN [state |-> [sa.state EXCEPT !.posture_alert_on = TRUE],
          actions |-> Append(sa.actions, pa)]
    ELSE IF pa = "clear_posture_alert" /\ sa.state.posture_alert_on
    THEN [state |-> [sa.state EXCEPT !.posture_alert_on = FALSE],
          actions |-> Append(sa.actions, pa)]
    ELSE sa

\* WattHours that falls back to half an hour when dt is 0 (`dt or 1800`)
WattHours_zerodefault(w, dt) == (w * (IF dt = 0 THEN 1800 ELSE dt)) \div 3600

\* w * hours with hours = dt / 3600.0
WattHours(w, dt) == (w * dt) \div 3600

\* EnergyBlock that also charges the light wattage while the posture alert is on
EnergyBlock_alertdraw(dt, sa) ==
    LET e1 == IF sa.state.light_on \/ sa.state.posture_alert_on
              THEN sa.state.energy_used_wh + WattHours(energy_light_w, dt)
              ELSE sa.state.energy_used_wh
        e2 == IF sa.state.fan_on
              THEN e1 + WattHours(energy_fan_w, dt)
              ELSE e1
    IN [sa EXCEPT !.state.energy_used_wh = e2]

EnergyBlock(dt, sa) ==
    LET e1 == IF sa.state.light_on
              THEN sa.state.energy_used_wh + WattHours(energy_light_w, dt)
              ELSE sa.state.energy_used_wh
        e2 == IF sa.state.fan_on
              THEN e1 + WattHours(energy_fan_w, dt)
              ELSE e1
    IN [sa EXCEPT !.state.energy_used_wh = e2]

\* StampBlock that sets last_action_ts on every tick
StampBlock_always(n, sa) == [sa EXCEPT !.state.last_action_ts = n]

StampBlock(n, sa) ==
    IF sa.actions # <<>>
    THEN [sa EXCEPT !.state.last_action_ts = n]
    ELSE sa

\* Controller.step that integrates energy before the transitions of the tick
ControllerStep_energyfirst(s, st, dt, n) ==
    StampBlock(n,
      PostureBlock(s,
        FanBlock(s,
          LightBlock(s, EnergyBlock(dt, [state |-> st, actions |-> <<>>])))))

\* Controller.step with the fan block ahead of the light block
ControllerStep_fanfirst(s, st, dt, n) ==
    StampBlock(n,
      EnergyBlock(dt,
        PostureBlock(s,
          LightBlock(s,
            FanBlock(s, [state |-> st, actions |-> <<>>])))))

\* Controller.step that evaluates the fan only when the light block appended
\* no action (the blocks chained by elif)
ControllerStep_chained(s, st, dt, n) ==
    LET l == LightBlock(s, [state |-> st, actions |-> <<>>]) IN
    StampBlock(n,
      EnergyBlock(dt,
        PostureBlock(s, IF l.actions # <<>> THEN l ELSE FanBlock(s, l))))

ControllerStep(s, st, dt, n) ==
    StampBlock(n,
      EnergyBlock(dt,
        PostureBlock(s,
          FanBlock(s,
            LightBlock(s, [state |-> st, actions |-> <<>>])))))

-----------------------------------------------------------------------------
(* src/src/ai/llm_client.py                                                *)
(* A text is a sequence of chunks; the chunk " " is whitespace, every      *)
(* other chunk is a non-empty run of non-whitespace characters or a whole  *)
(* template sentence (numbers formatted into a sentence stay inside it).   *)

Missing == "<missing>"

RawEnabled == {Missing, "False", "True"}
RawProviders == {Missing, "", "ollama", "Ollama", "openai"}
RawLlmConfigs == [enabled : RawEnabled, provider : RawProviders]

\* LLMClient.__init__: bool(get("enabled", False)), str(get("provider", "ollama") or "ollama")
LLMClientInit(raw) ==
    [enabled |-> (raw.enabled = "True"),
     provider |-> IF raw.provider = Missing \/ raw.provider = ""
                  THEN "ollama" ELSE raw.provider]

\* str.lower on the providers of the model
Lower(p) == IF p = "Ollama" THEN "ollama" ELSE p

IsSpace(c) == c = " "

RECURSIVE LStrip(_)
LStrip(t) == IF t # <<>> /\ IsSpace(Head(t)) THEN LStrip(Tail(t)) ELSE t

RECURSIVE RStrip(_)
RStrip(t) ==
    IF t # <<>> /\ IsSpace(t[Len(t)]) THEN RStrip(SubSeq(t, 1, Len(t) - 1)) ELSE t

\* str.strip that trims the left end only
Strip_leftonly(t) == LStrip(t)

\* str.strip
Strip(t) == RStrip(LStrip(t))

\* Optional[str]
NoText == [some |-> FALSE, text |-> <<>>]
SomeText(t) == [some |-> TRUE, text |-> t]

\* What the endpoint does with the one request of a call.
\*   url_error        connection refused, DNS failure (error.URLError)
\*   timeout          TimeoutError
\*   http_error       non-2xx status: urlopen raises HTTPError, a URLError
\*   status_not_200   a 2xx status other than 200
\*   ok               status 200 with a body
Transports == {"url_error", "timeout", "http_error", "status_not_200", "ok"}

ResponseTexts ==
    {<<>>, <<" ">>, <<"ok">>, <<" ", "ok", " ">>, <<"ok", " ", "ok">>}

\* the value under the key "response" of a JSON object
ResponseFields ==
    {[type |-> ty, text |-> <<>>] : ty \in {"missing", "null", "number"}}
    \cup {[type |-> "str", text |-> x] : x \in ResponseTexts}

NoField == [type |-> "missing", text |-> <<>>]

\* not_utf8: raw.decode fails; not_json: json.loads fails;
\* array, scalar: valid JSON that is not an object; object: a JSON object
Bodies ==
    {[kind |-> k, response |-> NoField] : k \in {"not_utf8", "not_json", "array", "scalar"}}
    \cup {[kind |-> "object", response |-> f] : f \in ResponseFields}

NoBody == [kind |-> "not_json", response |-> NoField]

Backends ==
    {[transport |-> tr, body |-> NoBody] : tr \in Transports \ {"ok"}}
    \cup {[transport |-> "ok", body |-> b] : b \in Bodies}

\* _call_llm that tests only the enabled flag
_call_llm_anyprovider(cfg, backend) ==
    IF ~cfg.enabled
    THEN [raised |-> FALSE, value |-> NoText, requests |-> 0]
    ELSE IF backend.transport # "ok"
    THEN [raised |-> FALSE, value |-> NoText, requests |-> 1]
    ELSE IF backend.body.kind \in {"not_utf8", "not_json"}
    THEN [raised |-> FALSE, value |-> NoText, requests |-> 1]
    ELSE IF backend.body.kind # "object"
    THEN [raised |-> TRUE, value |-> NoText, requests |-> 1]
    ELSE IF backend.body.response.type = "str"
    THEN [raised |-> FALSE, value |-> SomeText(Strip(backend.body.response.text)),
          requests |-> 1]
    ELSE [raised |-> FALSE, value |-> NoText, requests |-> 1]

\* LLMClient._call_llm: value is the returned Optional[str], raised tells
\* that an exception left the method, requests counts the urlopen calls
_call_llm(cfg, backend) ==
    IF ~cfg.enabled \/ Lower(cfg.provider) # "ollama"
    THEN [raised |-> FALSE, value |-> NoText, requests |-> 0]
    ELSE IF backend.transport # "ok"
    THEN [raised |-> FALSE, value |-> NoText, requests |-> 1]
    ELSE IF backend.body.kind \in {"not_utf8", "not_json"}
    THEN [raised |-> FALSE, value |-> NoText, requests |-> 1]
    ELSE IF backend.body.kind # "object"
    THEN \* parsed.get on a list, str, number or None: AttributeError
         [raised |-> TRUE, value |-> NoText, requests |-> 1]
    ELSE IF backend.body.response.type = "str"
    THEN [raised |-> FALSE, value |-> SomeText(Strip(backend.body.response.text)),
          requests |-> 1]
    ELSE [raised |-> FALSE, value |-> NoText, requests |-> 1]

In(tok, acts) == \E i \in 1..Len(acts) : acts[i] = tok

RECURSIVE Join(_)
\* " ".join(parts)
Join(parts) ==
    IF parts = <<>> THEN <<>>
    ELSE IF Len(parts) = 1 THEN <<Head(parts)>>
    ELSE <<Head(parts), " ">> \o Join(Tail(parts))

Part(cond, sentence) == IF cond THEN <<sentence>> ELSE <<>>

\* LLMClient._rule_based_explanation
_rule_based_explanation(s, acts) ==
    IF acts = <<>>
    THEN IF ~s.present
         THEN <<"No adjustments needed while you are away; keeping devices off to save energy.">>
         ELSE <<"Everything looks comfortable right now, so I left the setup as-is.">>
    ELSE
      LET parts ==
            Part(In("turn_on_light", acts) /\ s.present,
                 "I turned on the desk light because it was dim while you were here.")
            \o Part(In("turn_on_light", acts) /\ ~s.present,
                 "I switched on the desk light so the space is ready even though you just stepped away.")
            \o Part(In("turn_off_light", acts) /\ s.present,
                 "I turned off the desk light because the area was already bright enough.")
            \o Part(In("turn_off_light", acts) /\ ~s.present,
                 "I turned off the desk light because you are not at the desk, to save energy.")
            \o Part(In("turn_on_fan", acts),
                 "I turned on the fan since it felt warm or humid.")
            \o Part(In("turn_off_fan", acts),
                 "I turned off the fan because temperature and humidity returned to a comfortable range.")
            \o Part(In("posture_alert_on", acts),
                 "I sent a posture reminder because your posture score dropped. Please sit upright and relax your shoulders.")
            \o Part(In("clear_posture_alert", acts),
                 "Great job improving your posture - I'm clearing the alert for now.")
      IN IF parts = <<>>
         THEN <<"I adjusted your environment for comfort, efficiency, and better posture.">>
         ELSE Join(parts)

\* LLMClient.explain_decision: source tells which branch produced the text
explain_decision(cfg, s, acts, backend) ==
    LET r == _call_llm(cfg, backend) IN
    IF r.raised
    THEN [raised |-> TRUE, text |-> <<>>, source |-> "error", requests |-> r.requests]
    ELSE IF r.value.some /\ r.value.text # <<>>
    THEN [raised |-> FALSE, text |-> r.value.text, source |-> "llm",
          requests |-> r.requests]
    ELSE [raised |-> FALSE, text |-> _rule_based_explanation(s, acts),
          source |-> "fallback", requests |-> r.requests]

-----------------------------------------------------------------------------
(* One tick: a caller invokes Controller.step on the threaded DeskState *)

EnergyInRange(e) == -MaxEnergyWh <= e /\ e <= MaxEnergyWh

Step(s, dt, n) ==
    LET r == ControllerStep(s, state, dt, n) IN
    /\ EnergyInRange(r.state.energy_used_wh)
    /\ state' = r.state
    /\ actions' = r.actions
    /\ sensor' = s
    /\ dt_seconds' = dt
    /\ now' = n
    /\ absent_run' = IF s.present THEN 0
                     ELSE IF absent_run < AbsentCap THEN absent_run + 1
                     ELSE absent_run
    /\ repeated' = (s = sensor)

\* ticks with readings from R, elapsed times from D and clock values from T
Tick(R, D, T) ==
    /\ \E s \in R, dt \in D, n \in T : Step(s, dt, n)
    /\ UNCHANGED <<llmVars, trail, ruleVars, loopVars, sideVars>>

\* a run of at most MaxTrail ticks from the fresh DeskState, readings from R,
\* each tick recorded in trail
Scenario(R) ==
    /\ Len(trail) < MaxTrail
    /\ \E s \in R : Step(s, 0, 1) /\ trail' = Append(trail, s)
    /\ UNCHANGED <<llmVars, ruleVars, loopVars, sideVars>>

CtlInit ==
    /\ state = DeskState
    /\ sensor = NoReading
    /\ dt_seconds = 0
    /\ now = None
    /\ actions = <<>>
    /\ absent_run = 0
    /\ repeated = FALSE

\* LLMClient._rule_based_coaching
_rule_based_coaching(s, acts) ==
    IF In("posture_alert_on", acts)
    THEN <<"Try planting your feet flat, rolling your shoulders back, and keeping your screen at eye level.">>
    ELSE IF s.posture_score < 80
    THEN <<"Take a quick stretch break and realign your spine to keep posture scores healthy.">>
    ELSE IF In("turn_on_fan", acts) \/ s.temperature_c > 26 \/ s.humidity_pct > 65
    THEN <<"Stay cool with steady airflow and sip some water to offset the warm, humid air.">>
    ELSE IF In("turn_on_light", acts)
    THEN <<"Adjust your monitor brightness to match the desk light and reduce eye strain.">>
    ELSE <<"Looks good - keep a relaxed, upright posture and take short breaks to stay comfortable.">>

\* LLMClient.generate_coaching_tip, the only definition of the name
\* generate_coaching_tip that the control loops import
generate_coaching_tip(cfg, s, acts, backend) ==
    LET r == _call_llm(cfg, backend) IN
    IF r.raised
    THEN [raised |-> TRUE, text |-> <<>>, source |-> "error", requests |-> r.requests]
    ELSE IF r.value.some /\ r.value.text # <<>>
    THEN [raised |-> FALSE, text |-> r.value.text, source |-> "llm",
          requests |-> r.requests]
    ELSE [raised |-> FALSE, text |-> _rule_based_coaching(s, acts),
          source |-> "fallback", requests |-> r.requests]

-----------------------------------------------------------------------------
(* run_simulation.py and scenarios.py: one iteration of the control loop.  *)
(* An actuator call is [fn, arg]; the fixed message of the posture         *)
(* notification is the arg TRUE.                                           *)

ActuatorCalls(st) ==
    <<[fn |-> "set_light", arg |-> st.light_on],
      [fn |-> "set_fan", arg |-> st.fan_on]>>
    \o (IF st.posture_alert_on
        THEN <<[fn |-> "send_posture_notification", arg |-> TRUE]>>
        ELSE <<>>)

-----------------------------------------------------------------------------
(* src/src/hw/actuators.py: ConsoleActuator.  Each method is an operator   *)
(* from the fields before the call to the fields after it and the lines    *)
(* it printed.                                                             *)

\* Optional[bool]
NoBool == [some |-> FALSE, val |-> FALSE]
SomeBool(b) == [some |-> TRUE, val |-> b]

\* ConsoleActuator.__init__
ConsoleActuator ==
    [_light_state |-> NoBool, _fan_state |-> NoBool, _posture_active |-> FALSE]

OnOff(on) == IF on THEN "ON" ELSE "OFF"

\* set_light that prints but does not remember the value
set_light_forgetful(a, on) ==
    IF ~a._light_state.some \/ a._light_state.val # on
    THEN [actuator |-> a, out |-> <<<<"[ACTUATOR] Desk light ->", OnOff(on)>>>>]
    ELSE [actuator |-> a, out |-> <<>>]

set_light(a, on) ==
    IF ~a._light_state.some \/ a._light_state.val # on
    THEN [actuator |-> [a EXCEPT !._light_state = SomeBool(on)],
          out |-> <<<<"[ACTUATOR] Desk light ->", OnOff(on)>>>>]
    ELSE [actuator |-> a, out |-> <<>>]

set_fan(a, on) ==
    IF ~a._fan_state.some \/ a._fan_state.val # on
    THEN [actuator |-> [a EXCEPT !._fan_state = SomeBool(on)],
          out |-> <<<<"[ACTUATOR] Fan ->", OnOff(on)>>>>]
    ELSE [actuator |-> a, out |-> <<>>]

\* the message is the fixed text of the loops; nothing sets _posture_active
\* back to False
send_posture_notification(a) ==
    IF ~a._posture_active
    THEN [actuator |-> [a EXCEPT !._posture_active = TRUE],
          out |-> <<<<"[ACTUATOR] Posture alert:", "message">>>>]
    ELSE [actuator |-> a, out |-> <<>>]

\* one call [fn, arg] on the actuator
Dispatch(a, c) ==
    IF c.fn = "set_light" THEN set_light(a, c.arg)
    ELSE IF c.fn = "set_fan" THEN set_fan(a, c.arg)
    ELSE send_posture_notification(a)

RECURSIVE ApplyCalls(_, _)
\* the calls of one tick, in order
ApplyCalls(a, calls) ==
    IF calls = <<>> THEN [actuator |-> a, out |-> <<>>]
    ELSE LET r == Dispatch(a, Head(calls))
             rest == ApplyCalls(r.actuator, Tail(calls))
         IN [actuator |-> rest.actuator, out |-> r.out \o rest.out]

\* readings and action lists handed to explain_decision
ExplainReadings ==
    {s \in Readings : /\ s.light_lux = 150 /\ s.temperature_c = 28
                      /\ s.humidity_pct = 70 /\ s.posture_score = 60}

ExplainActionLists ==
    {<<>>,
     <<"turn_on_light">>,
     <<"turn_on_light", "turn_on_fan", "posture_alert_on">>,
     <<"turn_off_light", "turn_off_fan", "clear_posture_alert">>,
     <<"turn_off_fan">>,
     <<"noop">>}

NoCall == [sensor |-> NoReading, actions |-> <<>>,
           backend |-> [transport |-> "url_error", body |-> NoBody]]
NoResult == [raised |-> FALSE, text |-> <<>>, source |-> "none", requests |-> 0]

LlmIdle ==
    /\ llm_config = LLMClientInit([enabled |-> Missing, provider |-> Missing])
    /\ llm_call = NoCall
    /\ llm_result = NoResult

Explain(s, acts, backend) ==
    /\ llm_call' = [sensor |-> s, actions |-> acts, backend |-> backend]
    /\ llm_result' = explain_decision(llm_config, s, acts, backend)
    /\ UNCHANGED <<llm_config, ctlVars, trail, ruleVars, loopVars, sideVars>>

\* the calls a caller can make on a ConsoleActuator
DirectCalls ==
    {[fn |-> f, arg |-> on] : f \in {"set_light", "set_fan"}, on \in BOOLEAN}
    \cup {[fn |-> "send_posture_notification", arg |-> TRUE]}

\* one direct call, logged with the fields before and after it and its output
Call(c) ==
    LET r == Dispatch(actuator, c) IN
    /\ Len(call_log) < MaxCalls
    /\ actuator' = r.actuator
    /\ printed' = r.out
    /\ call_log' = Append(call_log, [fn |-> c.fn, arg |-> c.arg, out |-> r.out,
                                     before |-> actuator, after |-> r.actuator])
    /\ UNCHANGED <<ctlVars, llmVars, trail, ruleVars, act_calls, log_row, crashed,
                   desks, probe>>

\* Two desks, each with its own DeskState, stepped in any order through the
\* one Controller; a desk is its DeskState, the readings it was stepped with
\* and the action lists step returned for them.
Desks == {1, 2}
NewDesk == [state |-> DeskState, trail |-> <<>>, results |-> <<>>]
DeskDt == 1800

\* all on, all off, hold with a posture alert, absent
DeskReadings ==
    {s \in Readings :
        /\ s.humidity_pct = 60
        /\ \/ s.present /\ s.light_lux = 150 /\ s.temperature_c = 28 /\ s.posture_score = 60
           \/ s.present /\ s.light_lux = 450 /\ s.temperature_c = 23 /\ s.posture_score = 80
           \/ s.present /\ s.light_lux = 300 /\ s.temperature_c = 25 /\ s.posture_score = 60
           \/ ~s.present /\ s.light_lux = 150 /\ s.temperature_c = 28 /\ s.posture_score = 60}

\* controller.step(s, <DeskState of d>) where both desks hold the same
\* DeskState object
StepDesk_shared(ds, d, s) ==
    LET r == ControllerStep(s, ds[d].state, DeskDt, 1) IN
    [e \in Desks |->
        IF e = d
        THEN [state |-> r.state, trail |-> Append(ds[e].trail, s),
              results |-> Append(ds[e].results, r.actions)]
        ELSE [ds[e] EXCEPT !.state = r.state]]

\* controller.step(s, <DeskState of d>): step assigns to the fields of the
\* DeskState it was passed and to nothing else
StepDesk(ds, d, s) ==
    LET r == ControllerStep(s, ds[d].state, DeskDt, 1) IN
    [ds EXCEPT ![d] = [state |-> r.state, trail |-> Append(ds[d].trail, s),
                       results |-> Append(ds[d].results, r.actions)]]

DeskTick(d, s) ==
    /\ Len(desks[d].trail) < MaxDeskTicks
    /\ desks' = StepDesk(desks, d, s)
    /\ UNCHANGED <<ctlVars, llmVars, trail, ruleVars, loopVars, call_log, probe>>

\* Controller.step called on two (reading, prior state) inputs
ProbeReadings ==
    [present : BOOLEAN, light_lux : {150, 450}, temperature_c : {23, 28},
     humidity_pct : {60, 70}, posture_score : {60, 80}]

ProbeStates ==
    {[DeskState EXCEPT !.light_on = l, !.fan_on = f, !.posture_alert_on = p] :
        l \in BOOLEAN, f \in BOOLEAN, p \in BOOLEAN}

ProbeInputs == [s : ProbeReadings, st : ProbeStates]

NoProbe ==
    [done |-> FALSE,
     a |-> [s |-> NoReading, st |-> DeskState],
     b |-> [s |-> NoReading, st |-> DeskState],
     ra |-> [state |-> DeskState, actions |-> <<>>],
     rb |-> [state |-> DeskState, actions |-> <<>>]]

ProbePair(a, b) ==
    /\ ~probe.done
    /\ probe' = [done |-> TRUE, a |-> a, b |-> b,
                 ra |-> ControllerStep(a.s, a.st, 0, 1),
                 rb |-> ControllerStep(b.s, b.st, 0, 1)]
    /\ UNCHANGED <<ctlVars, llmVars, trail, ruleVars, loopVars, call_log, desks>>

\* arguments and result of a rule function before any direct call
NoRuleIn ==
    [temperature_c |-> 0, humidity_pct |-> 0, present |-> FALSE,
     temp_on |-> 0, temp_off |-> 0, humid_on |-> 0]

NoRow == [logged |-> FALSE, state |-> DeskState, actions |-> <<>>, llm_message |-> <<>>]

IdleInit ==
    /\ trail = <<>>
    /\ rule_in = NoRuleIn
    /\ rule_out = "none"
    /\ act_calls = <<>>
    /\ log_row = NoRow
    /\ crashed = FALSE
    /\ actuator = ConsoleActuator
    /\ printed = <<>>
    /\ call_log = <<>>
    /\ desks = [d \in Desks |-> NewDesk]
    /\ probe = NoProbe

Init == CtlInit /\ LlmIdle /\ IdleInit

Next == Tick(Readings, {0}, Times)

Spec == Init /\ [][Next]_vars

EnergyNext == Tick(EnergyReadings, DtValues, {1})

EnergySpec == Init /\ [][EnergyNext]_vars

LlmInit ==
    /\ CtlInit
    /\ \E raw \in RawLlmConfigs : llm_config = LLMClientInit(raw)
    /\ llm_call = NoCall
    /\ llm_result = NoResult
    /\ IdleInit

LlmNext ==
    \E s \in ExplainReadings, acts \in ExplainActionLists, backend \in Backends :
        Explain(s, acts, backend)

LlmSpec == LlmInit /\ [][LlmNext]_vars

\* the light channel alone: readings around the default lux thresholds
LightScenarioReadings ==
    [present : BOOLEAN, light_lux : {150, 250, 450}, temperature_c : {25},
     humidity_pct : {60}, posture_score : {80}]

LightScenarioNext == Scenario(LightScenarioReadings)

LightScenarioSpec == Init /\ [][LightScenarioNext]_vars

\* direct calls of decide_fan_action, thresholds included
FanRuleInputs ==
    [temperature_c : 22..29, humidity_pct : {60, 65, 70}, present : BOOLEAN,
     temp_on : {26, 27}, temp_off : {23, 24}, humid_on : {65}]

ApplyFanRule(inp) ==
    /\ rule_in' = inp
    /\ rule_out' = decide_fan_action(inp.temperature_c, inp.humidity_pct, inp.present,
                                     inp.temp_on, inp.temp_off, inp.humid_on)
    /\ UNCHANGED <<ctlVars, llmVars, trail, loopVars, sideVars>>

FanRuleNext == \E inp \in FanRuleInputs : ApplyFanRule(inp)

FanRuleSpec == Init /\ [][FanRuleNext]_vars

\* readings on, between and beyond the thresholds
EdgeReadings ==
    [present : BOOLEAN, light_lux : {150, 200, 300, 400, 450},
     temperature_c : {23, 24, 25, 27, 28}, humidity_pct : {65},
     posture_score : {60, 70, 80}]

EdgeNext == Tick(EdgeReadings, {0}, {1})

EdgeSpec == Init /\ [][EdgeNext]_vars

\* step, then the assistant message when the tick has actions, then the
\* actuators, then log_step; an exception raised by the message call leaves
\* the loop before the actuators and the logger are reached
LoopTick(s, n, backend) ==
    /\ ~crashed
    /\ Step(s, 0, n)
    /\ llm_call' = IF actions' # <<>>
                   THEN [sensor |-> s, actions |-> actions', backend |-> backend]
                   ELSE NoCall
    /\ llm_result' = IF actions' # <<>>
                     THEN generate_coaching_tip(llm_config, s, actions', backend)
                     ELSE NoResult
    /\ crashed' = llm_result'.raised
    /\ act_calls' = IF llm_result'.raised THEN <<>> ELSE ActuatorCalls(state')
    /\ log_row' = IF llm_result'.raised THEN NoRow
                  ELSE [logged |-> TRUE, state |-> state', actions |-> actions',
                        llm_message |-> llm_result'.text]
    /\ actuator' = IF llm_result'.raised THEN actuator
                   ELSE ApplyCalls(actuator, ActuatorCalls(state')).actuator
    /\ printed' = IF llm_result'.raised THEN <<>>
                  ELSE ApplyCalls(actuator, ActuatorCalls(state')).out
    /\ UNCHANGED <<llm_config, trail, ruleVars, sideVars>>

LoopReadings ==
    [present : BOOLEAN, light_lux : {150, 300}, temperature_c : {25, 28},
     humidity_pct : {60}, posture_score : {60, 80}]

\* endpoint behaviours met by the loop: unreachable, a JSON array, a usable
\* text, an empty text
LoopBackends ==
    {[transport |-> "url_error", body |-> NoBody],
     [transport |-> "ok", body |-> [kind |-> "array", response |-> NoField]],
     [transport |-> "ok",
      body |-> [kind |-> "object", response |-> [type |-> "str", text |-> <<" ", "ok", " ">>]]],
     [transport |-> "ok",
      body |-> [kind |-> "object", response |-> [type |-> "str", text |-> <<>>]]]}

LoopNext ==
    \E s \in LoopReadings, backend \in LoopBackends : LoopTick(s, 1, backend)

LoopSpec == LlmInit /\ [][LoopNext]_vars

\* elapsed time varies over readings that switch light, fan and posture alert
AwayEnergyReadings ==
    [present : BOOLEAN, light_lux : {150, 450}, temperature_c : {23, 28},
     humidity_pct : {60}, posture_score : {60, 80}]

AwayEnergyNext == Tick(AwayEnergyReadings, DtValues, {1})

AwayEnergySpec == Init /\ [][AwayEnergyNext]_vars

\* direct calls on a fresh ConsoleActuator
ActuatorNext == \E c \in DirectCalls : Call(c)

ActuatorSpec == Init /\ [][ActuatorNext]_vars

DeskNext == \E d \in Desks, s \in DeskReadings : DeskTick(d, s)

DeskSpec == Init /\ [][DeskNext]_vars

\* one pair of calls per run
ProbeNext ==
    /\ ~probe.done
    /\ \E a \in ProbeInputs, b \in ProbeInputs : ProbePair(a, b)

ProbeSpec == Init /\ [][ProbeNext]_vars

-----------------------------------------------------------------------------
(* Properties *)

Ticked == sensor # NoReading
Explained == llm_result.source # "none"

LightTokens == {"turn_on_light", "turn_off_light"}
FanTokens == {"turn_on_fan", "turn_off_fan"}
PostureTokens == {"posture_alert_on", "clear_posture_alert"}
OffTokens == {"turn_off_light", "turn_off_fan", "clear_posture_alert"}

\* C1: energy_used_wh is >= 0 in every reachable state and no step makes it
\* smaller, for every reading and every dt_seconds (negative ones included).
C1_EnergyNonNegativeMonotone ==
    [][/\ state'.energy_used_wh >= state.energy_used_wh
       /\ state'.energy_used_wh >= 0]_vars

\* C2: a step with dt_seconds < 0 behaves as the same step with dt_seconds = 0:
\* energy_used_wh keeps its value, flags and action list are those of the tick.
C2_NegativeDtTreatedAsZero ==
    [][dt_seconds' < 0 =>
         /\ state'.energy_used_wh = state.energy_used_wh
         /\ state' = ControllerStep(sensor', state, 0, now').state
         /\ actions' = ControllerStep(sensor', state, 0, now').actions]_vars

\* the remote call yields a usable text: enabled, recognized provider, status
\* 200, a JSON object whose "response" is a string that is non-empty once trimmed
RemoteSucceeds(cfg, backend) ==
    /\ cfg.enabled
    /\ Lower(cfg.provider) = "ollama"
    /\ backend.transport = "ok"
    /\ backend.body.kind = "object"
    /\ backend.body.response.type = "str"
    /\ Strip(backend.body.response.text) # <<>>

\* C3: explain_decision raises nothing and returns a non-empty text for every
\* reading, action list and backend outcome; whenever the remote call does not
\* yield a usable text the returned text is the rule-based fallback text.
C3_ExplainNeverRaisesNeverEmpty ==
    Explained =>
        /\ ~llm_result.raised
        /\ llm_result.text # <<>>
        /\ ~RemoteSucceeds(llm_config, llm_call.backend) =>
              llm_result.text = _rule_based_explanation(llm_call.sensor, llm_call.actions)

\* C4: after a step whose reading has present = FALSE, light_on, fan_on and
\* posture_alert_on are all FALSE, whatever the prior state and other values.
C4_AbsentForcesAllOff ==
    (Ticked /\ ~sensor.present) =>
        /\ ~state.light_on
        /\ ~state.fan_on
        /\ ~state.posture_alert_on

\* an absent tick that switched all three flags off, with a reading that
\* would otherwise ask for light, fan and posture alert
C4_Witness ==
    /\ Ticked /\ ~sensor.present
    /\ sensor.light_lux < on_lux /\ sensor.temperature_c > on_c
    /\ sensor.posture_score < bad_threshold
    /\ actions = <<"turn_off_light", "turn_off_fan", "clear_posture_alert">>

\* C5: in a run of absent ticks the first one emits only off tokens, each only
\* for a flag that was TRUE before it; every later tick of the run returns an
\* empty list and leaves last_action_ts unchanged.
C5_OnlyFirstAbsentTickActs ==
    [][/\ absent_run' = 1 =>
            /\ \A i \in 1..Len(actions') : actions'[i] \in OffTokens
            /\ In("turn_off_light", actions') => state.light_on
            /\ In("turn_off_fan", actions') => state.fan_on
            /\ In("clear_posture_alert", actions') => state.posture_alert_on
       /\ absent_run' >= 2 =>
            /\ actions' = <<>>
            /\ state'.last_action_ts = state.last_action_ts]_vars

\* a second absent tick in a row, with a reading other than the first one's,
\* after the run's first tick had switched something off
C5_Witness ==
    /\ absent_run >= 2 /\ ~repeated /\ actions = <<>>
    /\ state.last_action_ts # None

\* C6: from light_on = FALSE, a present tick whose light_lux lies strictly
\* inside (on_lux, off_lux) emits no light token and leaves light_on FALSE;
\* so over any sequence of such ticks the light never comes on.
C6_DeadZoneKeepsLightOff ==
    [][(/\ ~state.light_on
        /\ sensor'.present
        /\ on_lux < sensor'.light_lux /\ sensor'.light_lux < off_lux
        /\ on_lux < off_lux)
       => /\ ~state'.light_on
          /\ \A i \in 1..Len(actions') : actions'[i] \notin LightTokens]_vars

\* two dead-zone ticks in a row with the light off throughout
C6_Witness ==
    /\ Ticked /\ sensor.present /\ repeated
    /\ on_lux < sensor.light_lux /\ sensor.light_lux < off_lux
    /\ ~state.light_on

\* C7: a step repeated with the same reading on the state the first step
\* produced returns an empty list and changes no flag and not last_action_ts.
C7_RepeatedReadingIdempotent ==
    [][repeated' =>
         /\ actions' = <<>>
         /\ state'.light_on = state.light_on
         /\ state'.fan_on = state.fan_on
         /\ state'.posture_alert_on = state.posture_alert_on
         /\ state'.last_action_ts = state.last_action_ts]_vars

\* the second of two equal ticks, with every rule asking for ON
C7_Witness ==
    /\ repeated /\ sensor.present
    /\ state.light_on /\ state.fan_on /\ state.posture_alert_on
    /\ actions = <<>>

\* C8: a token is in the returned list exactly when its flag flipped that way
\* in the step; an intent that re-confirms a flag emits nothing.
C8_TokenIffFlagFlipped ==
    [][/\ In("turn_on_light", actions') <=> (~state.light_on /\ state'.light_on)
       /\ In("turn_off_light", actions') <=> (state.light_on /\ ~state'.light_on)
       /\ In("turn_on_fan", actions') <=> (~state.fan_on /\ state'.fan_on)
       /\ In("turn_off_fan", actions') <=> (state.fan_on /\ ~state'.fan_on)
       /\ In("posture_alert_on", actions')
            <=> (~state.posture_alert_on /\ state'.posture_alert_on)
       /\ In("clear_posture_alert", actions')
            <=> (state.posture_alert_on /\ ~state'.posture_alert_on)]_vars

\* the light rule asks for ON and is not emitted (the light was on already)
\* in the tick that turns the fan on
C8_Witness ==
    /\ Ticked /\ sensor.present /\ sensor.light_lux < on_lux
    /\ state.light_on
    /\ actions = <<"turn_on_fan">>

Rank(tok) ==
    IF tok \in LightTokens THEN 1
    ELSE IF tok \in FanTokens THEN 2
    ELSE IF tok \in PostureTokens THEN 3
    ELSE 0

\* C9: the returned list holds only the six tokens, at most one per channel,
\* in the order light, fan, posture.
C9_ActionsOrderedOnePerChannel ==
    /\ \A i \in 1..Len(actions) : Rank(actions[i]) # 0
    /\ \A i, j \in 1..Len(actions) : i < j => Rank(actions[i]) < Rank(actions[j])

\* a tick that acted on all three channels
C9_Witness == Ticked /\ Len(actions) = 3

\* C10: last_action_ts starts absent; a step with a non-empty list sets it to
\* the step's now, a step with an empty list leaves it as it was.
C10_LastActionTsFollowsActions ==
    /\ state.last_action_ts = None
    /\ [][/\ actions' # <<>> => state'.last_action_ts = now'
          /\ actions' = <<>> => state'.last_action_ts = state.last_action_ts]_vars

\* a tick without actions kept the timestamp of an earlier tick
C10_Witness ==
    /\ Ticked /\ actions = <<>>
    /\ state.last_action_ts # None /\ state.last_action_ts # now

\* watts drawn by the devices that are on in DeskState st
Draw(st) ==
    (IF st.light_on THEN energy_light_w ELSE 0)
    + (IF st.fan_on THEN energy_fan_w ELSE 0)

\* C11: for dt_seconds >= 0 a step adds (light_w if light_on after the step)
\* + (fan_w if fan_on after the step), times dt_seconds / 3600; with the
\* default wattages and dt_seconds = 3600 that is 10 Wh for the light alone
\* and 40 Wh for light and fan.
C11_EnergyChargedOnResultingFlags ==
    [][dt_seconds' >= 0 =>
         /\ 3600 * (state'.energy_used_wh - state.energy_used_wh)
              = Draw(state') * dt_seconds'
         /\ (dt_seconds' = 3600 /\ state'.light_on /\ ~state'.fan_on)
              => state'.energy_used_wh = state.energy_used_wh + 10
         /\ (dt_seconds' = 3600 /\ state'.light_on /\ state'.fan_on)
              => state'.energy_used_wh = state.energy_used_wh + 40]_vars

\* the first tick turns light and fan on and is charged 40 Wh for its hour
C11_Witness ==
    /\ Ticked /\ dt_seconds = 3600
    /\ actions = <<"turn_on_light", "turn_on_fan">>
    /\ state.last_action_ts # None
    /\ state.energy_used_wh = 40

\* C12: a step with dt_seconds = 0 leaves energy_used_wh as it was, also
\* when it turns the light or the fan on.
C12_ZeroDtAddsNoEnergy ==
    [][dt_seconds' = 0 => state'.energy_used_wh = state.energy_used_wh]_vars

\* a zero-length tick that turned light and fan on after energy had been used
C12_Witness ==
    /\ Ticked /\ dt_seconds = 0
    /\ In("turn_on_light", actions) /\ In("turn_on_fan", actions)
    /\ state.energy_used_wh = 10

AllPresent(tr) == \A i \in 1..Len(tr) : tr[i].present
Lux(tr) == [i \in 1..Len(tr) |-> tr[i].light_lux]
NoLightToken(acts) == \A i \in 1..Len(acts) : acts[i] \notin LightTokens

\* C13: with the default thresholds, from light_on = FALSE and present on
\* every tick: lux 150 emits turn_on_light and leaves the light on, then lux
\* 250 emits no light action and leaves it on, then lux 450 emits
\* turn_off_light and leaves it off.
C13_DefaultThresholdScenario ==
    AllPresent(trail) =>
        /\ Lux(trail) = <<150>> =>
              In("turn_on_light", actions) /\ state.light_on
        /\ Lux(trail) = <<150, 250>> =>
              NoLightToken(actions) /\ state.light_on
        /\ Lux(trail) = <<150, 250, 450>> =>
              In("turn_off_light", actions) /\ ~state.light_on

\* the third tick of the scenario has run
C13_Witness ==
    /\ AllPresent(trail) /\ Lux(trail) = <<150, 250, 450>>
    /\ sensor = trail[3]
    /\ actions = <<"turn_off_light">>

\* C14: from fan_on = TRUE, a present tick that keeps the temperature of the
\* present tick before it (only humidity may differ) never emits turn_off_fan.
C14_HumidityNeverTurnsFanOff ==
    [][(/\ state.fan_on
        /\ sensor.present /\ sensor'.present
        /\ sensor'.temperature_c = sensor.temperature_c)
       => ~In("turn_off_fan", actions')]_vars

FanRuleApplied == rule_out # "none"

\* C15: decide_fan_action returns turn_off_fan when not present; otherwise
\* turn_on_fan when temperature_c > on_c or humidity_pct > humid_on (also when
\* temperature_c < off_c); otherwise turn_off_fan when temperature_c < off_c;
\* otherwise no_change.  A value equal to on_c, off_c or humid_on triggers
\* neither ON nor OFF by itself.
C15_FanRuleAsSpecified ==
    FanRuleApplied =>
      LET t == rule_in.temperature_c
          h == rule_in.humidity_pct
          hot == t > rule_in.temp_on
          humid == h > rule_in.humid_on
          cool == t < rule_in.temp_off
      IN /\ ~rule_in.present => rule_out = "turn_off_fan"
         /\ (rule_in.present /\ (hot \/ humid)) => rule_out = "turn_on_fan"
         /\ (rule_in.present /\ ~hot /\ ~humid /\ cool) => rule_out = "turn_off_fan"
         /\ (rule_in.present /\ ~hot /\ ~humid /\ ~cool) => rule_out = "no_change"
         /\ (rule_in.present /\ t \in {rule_in.temp_on, rule_in.temp_off}
               /\ h <= rule_in.humid_on) => rule_out = "no_change"
         /\ (rule_in.present /\ h = rule_in.humid_on
               /\ rule_in.temp_off <= t /\ t <= rule_in.temp_on) => rule_out = "no_change"

\* humidity above its bound wins over a temperature below off_c
C15_Witness ==
    /\ FanRuleApplied /\ rule_in.present
    /\ rule_in.temperature_c < rule_in.temp_off
    /\ rule_in.humidity_pct > rule_in.humid_on
    /\ rule_out = "turn_on_fan"

\* C16: after every step posture_alert_on is TRUE exactly when the reading is
\* present with posture_score < bad_threshold, whatever the prior state; a
\* score equal to bad_threshold clears the alert.
C16_PostureHasNoDeadZone ==
    Ticked =>
        /\ state.posture_alert_on
             <=> (sensor.present /\ sensor.posture_score < bad_threshold)
        /\ (sensor.present /\ sensor.posture_score = bad_threshold)
             => ~state.posture_alert_on

\* a present reading with the score on the threshold cleared a raised alert
C16_Witness ==
    /\ Ticked /\ sensor.present /\ sensor.posture_score = bad_threshold
    /\ In("clear_posture_alert", actions)

Called(fn, arg) == \E i \in 1..Len(act_calls) : act_calls[i] = [fn |-> fn, arg |-> arg]

\* C17: on every tick of the control loop, after the step, set_light with
\* state.light_on, set_fan with state.fan_on and send_posture_notification
\* are all invoked, whatever changed and whatever posture_alert_on is.
C17_AllActuatorsEveryTick ==
    Ticked =>
        /\ Called("set_light", state.light_on)
        /\ Called("set_fan", state.fan_on)
        /\ Called("send_posture_notification", TRUE)

\* C18: on every tick the action list, empty or not, is passed to the
\* explanation engine and the record handed to the logger carries a
\* non-empty explanation text.
C18_EveryTickExplained ==
    Ticked =>
        /\ Explained
        /\ llm_call.actions = actions
        /\ log_row.logged
        /\ log_row.llm_message # <<>>

Recognized(cfg) == cfg.enabled /\ cfg.provider \in {"ollama", "Ollama"}

\* C20: with llm.enabled false or a provider other than ollama (in any
\* letter case) a call issues no request and returns the fallback text;
\* otherwise it issues exactly one request, also when that request fails.
C20_RequestsPerCall ==
    Explained =>
        /\ ~Recognized(llm_config) =>
              /\ llm_result.requests = 0
              /\ ~llm_result.raised
              /\ llm_result.text = _rule_based_explanation(llm_call.sensor, llm_call.actions)
        /\ Recognized(llm_config) => llm_result.requests = 1

\* enabled with an unrecognized provider: no request, fallback text
C20_Witness ==
    /\ Explained
    /\ llm_config.enabled /\ llm_config.provider = "openai"
    /\ llm_call.backend.transport = "ok"
    /\ llm_result.requests = 0 /\ llm_result.source = "fallback"

\* the "response" string of the latest call's body
ResponseText == llm_call.backend.body.response.text

AllSpace(t) == \A i \in 1..Len(t) : IsSpace(t[i])

\* x is t without its leading and trailing whitespace
TrimmedOf(x, t) ==
    /\ x # <<>>
    /\ ~IsSpace(x[1])
    /\ ~IsSpace(x[Len(x)])
    /\ \E i \in 1..Len(t) :
          /\ i + Len(x) - 1 <= Len(t)
          /\ SubSeq(t, i, i + Len(x) - 1) = x
          /\ AllSpace(SubSeq(t, 1, i - 1))
          /\ AllSpace(SubSeq(t, i + Len(x), Len(t)))

\* enabled client, recognized provider, status 200 and a JSON object whose
\* "response" is a string
WellFormedReply(cfg, backend) ==
    /\ cfg.enabled
    /\ Lower(cfg.provider) = "ollama"
    /\ backend.transport = "ok"
    /\ backend.body.kind = "object"
    /\ backend.body.response.type = "str"

\* C21: when the client is enabled and the call answers 200 with a JSON object
\* whose "response" string has a non-whitespace character, explain_decision
\* returns that string without its leading and trailing whitespace and does
\* not use the fallback; when the string is empty or all whitespace it returns
\* the rule-based fallback text.
C21_RemoteTextReturnedTrimmed ==
    (Explained /\ WellFormedReply(llm_config, llm_call.backend)) =>
        IF AllSpace(ResponseText)
        THEN /\ llm_result.source = "fallback"
             /\ llm_result.text = _rule_based_explanation(llm_call.sensor, llm_call.actions)
        ELSE /\ ~llm_result.raised
             /\ llm_result.source = "llm"
             /\ TrimmedOf(llm_result.text, ResponseText)

C21_Witness ==
    /\ Explained
    /\ WellFormedReply(llm_config, llm_call.backend)
    /\ ResponseText = <<" ", "ok", " ">>
    /\ llm_result.text = <<"ok">>
    /\ llm_result.source = "llm"

\* earlier calls of the log on the channel of call i
EarlierOn(i) == {j \in 1..(i - 1) : call_log[j].fn = call_log[i].fn}

\* call i is the first on its channel or its value differs from the value of
\* the call before it on that channel
Differs(i) ==
    \/ EarlierOn(i) = {}
    \/ LET last == CHOOSE j \in EarlierOn(i) : \A k \in EarlierOn(i) : k <= j
       IN call_log[last].arg # call_log[i].arg

\* C22: set_light and set_fan of ConsoleActuator print one line on the first
\* call and on each call whose value differs from the previous call on the
\* same channel; a call repeating the previous value prints nothing and leaves
\* every field as it was; a call on one channel leaves the other channel's
\* field and the posture field alone.
C22_ActuatorPrintsOnChangeOnly ==
    \A i \in 1..Len(call_log) :
        LET c == call_log[i] IN
        /\ c.fn = "set_light" =>
              /\ IF Differs(i)
                 THEN c.out = <<<<"[ACTUATOR] Desk light ->", IF c.arg THEN "ON" ELSE "OFF">>>>
                 ELSE c.out = <<>> /\ c.after = c.before
              /\ c.after._fan_state = c.before._fan_state
              /\ c.after._posture_active = c.before._posture_active
        /\ c.fn = "set_fan" =>
              /\ IF Differs(i)
                 THEN c.out = <<<<"[ACTUATOR] Fan ->", IF c.arg THEN "ON" ELSE "OFF">>>>
                 ELSE c.out = <<>> /\ c.after = c.before
              /\ c.after._light_state = c.before._light_state
              /\ c.after._posture_active = c.before._posture_active

\* light on, fan off, light on again (silent), light off
C22_Witness ==
    /\ Len(call_log) = 4
    /\ call_log[1].fn = "set_light" /\ call_log[1].arg /\ call_log[1].out # <<>>
    /\ call_log[2].fn = "set_fan" /\ ~call_log[2].arg /\ call_log[2].out # <<>>
    /\ call_log[3].fn = "set_light" /\ call_log[3].arg /\ call_log[3].out = <<>>
    /\ call_log[4].fn = "set_light" /\ ~call_log[4].arg /\ call_log[4].out # <<>>

PostureLine == <<"[ACTUATOR] Posture alert:", "message">>

\* C23: in the control loop the ConsoleActuator prints the posture
\* notification on exactly the ticks where posture_alert_on goes from false to
\* true: at every onset, the second one after a clearing included, and on no
\* tick where the alert merely stays on.
C23_NotificationAtEachOnset ==
    (Ticked /\ ~crashed) =>
        (In("posture_alert_on", actions) <=> In(PostureLine, printed))

NoFanToken(acts) == \A i \in 1..Len(acts) : acts[i] \notin FanTokens

\* C24: a light that is on stays on, with no light action, over every present
\* tick whose light_lux is <= off_lux (dead zone, on_lux and off_lux
\* themselves included); a fan that is on stays on, with no fan action, over
\* every present tick whose temperature_c is >= off_c; a device that was on is
\* off after a tick only if the occupant is absent or the reading is strictly
\* past its off threshold.
C24_OnSideHysteresis ==
    [][/\ (state.light_on /\ sensor'.present /\ sensor'.light_lux <= off_lux) =>
              (state'.light_on /\ NoLightToken(actions'))
       /\ (state.fan_on /\ sensor'.present /\ sensor'.temperature_c >= off_c) =>
              (state'.fan_on /\ NoFanToken(actions'))
       /\ (state.light_on /\ ~state'.light_on) =>
              (~sensor'.present \/ sensor'.light_lux > off_lux)
       /\ (state.fan_on /\ ~state'.fan_on) =>
              (~sensor'.present \/ sensor'.temperature_c < off_c)]_vars

\* a present tick exactly on off_lux and off_c with light and fan still on:
\* neither can have been switched on by this tick
C24_Witness ==
    /\ Ticked
    /\ sensor.present
    /\ sensor.light_lux = off_lux
    /\ sensor.temperature_c = off_c
    /\ state.light_on
    /\ state.fan_on
    /\ NoLightToken(actions)
    /\ NoFanToken(actions)

\* C25: a tick with present = false adds nothing to energy_used_wh, whatever
\* the prior state and dt_seconds, the tick that switches the devices off
\* included; any tick that ends with light and fan off leaves energy_used_wh
\* unchanged; the energy a tick adds is the draw of the light and fan flags
\* alone, the same with posture_alert_on true or false.
C25_AbsenceCostsNoEnergy ==
    [][/\ ~sensor'.present => state'.energy_used_wh = state.energy_used_wh
       /\ (~state'.light_on /\ ~state'.fan_on) =>
              state'.energy_used_wh = state.energy_used_wh
       /\ state'.energy_used_wh - state.energy_used_wh =
              (IF state'.light_on THEN (energy_light_w * dt_seconds') \div 3600 ELSE 0)
              + (IF state'.fan_on THEN (energy_fan_w * dt_seconds') \div 3600 ELSE 0)]_vars

\* after an hour with everything on, an absent tick of an hour switches
\* everything off and the meter stays at 40 Wh
C25_Witness ==
    /\ Ticked
    /\ ~sensor.present
    /\ dt_seconds = 3600
    /\ In("turn_off_light", actions)
    /\ In("turn_off_fan", actions)
    /\ In("clear_posture_alert", actions)
    /\ state.energy_used_wh = 40

RECURSIVE RunAlone(_)
\* the DeskState and the action lists of a desk stepped alone, from a fresh
\* DeskState, with the readings tr
RunAlone(tr) ==
    IF tr = <<>> THEN [state |-> DeskState, results |-> <<>>]
    ELSE LET p == RunAlone(SubSeq(tr, 1, Len(tr) - 1))
             r == ControllerStep(tr[Len(tr)], p.state, DeskDt, 1)
         IN [state |-> r.state, results |-> Append(p.results, r.actions)]

IsLightToken(t) == t \in LightTokens
IsFanToken(t) == t \in FanTokens
IsPostureToken(t) == t \in PostureTokens

\* what a step did on one channel: the resulting flag and the channel's actions
LightOutcome(r) == [flag |-> r.state.light_on, acts |-> SelectSeq(r.actions, IsLightToken)]
FanOutcome(r) == [flag |-> r.state.fan_on, acts |-> SelectSeq(r.actions, IsFanToken)]
PostureOutcome(r) ==
    [flag |-> r.state.posture_alert_on, acts |-> SelectSeq(r.actions, IsPostureToken)]

SameLightInputs(a, b) ==
    /\ a.s.present = b.s.present
    /\ a.s.light_lux = b.s.light_lux
    /\ a.st.light_on = b.st.light_on

SameFanInputs(a, b) ==
    /\ a.s.present = b.s.present
    /\ a.s.temperature_c = b.s.temperature_c
    /\ a.s.humidity_pct = b.s.humidity_pct
    /\ a.st.fan_on = b.st.fan_on

SamePostureReading(a, b) ==
    /\ a.s.present = b.s.present
    /\ a.s.posture_score = b.s.posture_score

\* C27 as stated: two steps that agree on (present, light_lux, prior light_on)
\* agree on light_on and the light action; two that agree on (present,
\* temperature_c, humidity_pct, prior fan_on) agree on fan_on and the fan
\* action; two that agree on (present, posture_score) agree on
\* posture_alert_on and the posture action.
C27_ChannelsIndependent_AsStated ==
    probe.done =>
        /\ SameLightInputs(probe.a, probe.b) =>
              LightOutcome(probe.ra) = LightOutcome(probe.rb)
        /\ SameFanInputs(probe.a, probe.b) =>
              FanOutcome(probe.ra) = FanOutcome(probe.rb)
        /\ SamePostureReading(probe.a, probe.b) =>
              PostureOutcome(probe.ra) = PostureOutcome(probe.rb)

\* C27: two steps that agree on (present, light_lux, prior light_on) agree on
\* light_on and the light action; two that agree on (present, temperature_c,
\* humidity_pct, prior fan_on) agree on fan_on and the fan action; two that
\* agree on (present, posture_score) agree on posture_alert_on, and if they
\* also agree on the prior posture_alert_on they agree on the posture action.
C27_ChannelsIndependent ==
    probe.done =>
        /\ SameLightInputs(probe.a, probe.b) =>
              LightOutcome(probe.ra) = LightOutcome(probe.rb)
        /\ SameFanInputs(probe.a, probe.b) =>
              FanOutcome(probe.ra) = FanOutcome(probe.rb)
        /\ SamePostureReading(probe.a, probe.b) =>
              /\ probe.ra.state.posture_alert_on = probe.rb.state.posture_alert_on
              /\ probe.a.st.posture_alert_on = probe.b.st.posture_alert_on =>
                    PostureOutcome(probe.ra) = PostureOutcome(probe.rb)

\* two steps with the same light inputs that differ in every input and prior
\* flag of the fan and posture channels, and in what those channels did; both
\* switch the light on
C27_Witness ==
    /\ probe.done
    /\ SameLightInputs(probe.a, probe.b)
    /\ probe.a.s.temperature_c # probe.b.s.temperature_c
    /\ probe.a.s.humidity_pct # probe.b.s.humidity_pct
    /\ probe.a.s.posture_score # probe.b.s.posture_score
    /\ probe.a.st.fan_on # probe.b.st.fan_on
    /\ probe.a.st.posture_alert_on # probe.b.st.posture_alert_on
    /\ FanOutcome(probe.ra) # FanOutcome(probe.rb)
    /\ PostureOutcome(probe.ra) # PostureOutcome(probe.rb)
    /\ In("turn_on_light", probe.ra.actions)
    /\ In("turn_on_light", probe.rb.actions)

====
